---- MODULE Spec2Model ----
(***************************************************************************)
(* Model of redmine_gitlab_migrator: the converters (converters.py) and    *)
(* the GitLab project client (gitlab.py).                                  *)
(*                                                                         *)
(* Text is modelled as a sequence of tokens: a literal piece of a format   *)
(* string, or a value substituted into it.  The empty string is << >>,     *)
(* str.format is concatenation and str.join interleaves the separator.     *)
(* A Python call ends by returning a value or by raising an exception;     *)
(* both outcomes are records with a "status" field.                        *)
(***************************************************************************)
EXTENDS Integers, Sequences, FiniteSets, TLC

VARIABLES
    user_dict,   \* converters.user_dict, the process-wide override table
    fn,          \* the function under call
    args,        \* its arguments
    pc,          \* "call" before the function ran, "done" after
    ret,         \* its outcome
    log,         \* the records the call handed to the logger
    ci_data,        \* create_issue: the payload, whose description it extends
    ci_l,      \* uploads_to_string: the local list 'l' of entries built so far
    ci_files,       \* uploads_to_string: the local 'files'
    ci_issue,       \* create_issue: the local 'issue'
    ci_issue_url,   \* create_issue: the local 'issue_url'
    ci_issue_notes_url, \* create_issue: the local 'issue_notes_url'
    ci_idx,         \* index of the upload or note the loop is at
    sent,        \* the HTTP requests made so far, with their outcome
    collection,  \* GitlabClient.get: the items the server holds at the URL
    result,      \* GitlabClient.get: the local 'result'
    page,        \* GitlabClient.get: kwargs['params']['page']
    project_milestones, \* the milestones the GitLab project holds
    cache_milestones,   \* GitlabProject._cache_milestones
    cm_milestone,       \* create_milestone: the local 'milestone'
    ncalls       \* create_milestone: the calls made on the project so far

\* The locals of GitlabProject.create_issue and the requests of the call
locals == <<ci_data, ci_l, ci_files, ci_issue, ci_issue_url, ci_issue_notes_url, ci_idx, sent>>

\* The state of GitlabClient.get and of the project's milestones
client == <<collection, result, page, project_milestones, cache_milestones, cm_milestone, ncalls>>

vars == <<user_dict, fn, args, pc, ret, log, locals, client>>

\* A local variable that no assignment has bound yet
Unbound == [bound |-> FALSE]

Bound(v) == [bound |-> TRUE, v |-> v]

\* No call of create_issue is under way
NoLocals ==
    /\ ci_data = Unbound
    /\ ci_l = << >>
    /\ ci_files = Unbound
    /\ ci_issue = Unbound
    /\ ci_issue_url = Unbound
    /\ ci_issue_notes_url = Unbound
    /\ ci_idx = 0
    /\ sent = << >>

\* No call of GitlabClient.get is under way
NoGet ==
    /\ collection = << >>
    /\ result = Unbound
    /\ page = 0

\* No GitlabProject whose milestones are at stake
NoMilestones ==
    /\ project_milestones = << >>
    /\ cache_milestones = Unbound
    /\ cm_milestone = Unbound
    /\ ncalls = 0

NoClient == NoGet /\ NoMilestones

-----------------------------------------------------------------------------
(* Outcomes of a call *)

Returned(v) == [status |-> "returned", value |-> v]

Raised(exc) == [status |-> "raised", exc |-> exc]

Pending == [status |-> "pending"]

-----------------------------------------------------------------------------
(* Text helpers *)

RECURSIVE Join(_, _)
Join(sep, l) ==
    IF l = << >> THEN << >>
    ELSE IF Len(l) = 1 THEN l[1]
    ELSE l[1] \o sep \o Join(sep, Tail(l))

RECURSIVE SeqsUpTo(_, _)
SeqsUpTo(S, n) ==
    IF n = 0 THEN { << >> }
    ELSE LET shorter == SeqsUpTo(S, n - 1)
         IN  shorter \cup { Append(s, x) : s \in shorter, x \in S }

-----------------------------------------------------------------------------
(* User indexes *)

ANONYMOUS_USERNAME == ""

\* The Redmine user index: id -> record with the login
RedmineUserIndex ==
    (1 :> [login |-> "alice", name |-> "Alice A"]) @@
    (2 :> [login |-> "bob",   name |-> "Bob B"]) @@
    (3 :> [login |-> "carol", name |-> "Carol C"])

GitlabUser(username) ==
    [id |-> CASE username = "alice" -> 11
              [] username = "bob"   -> 12
              [] username = "root"  -> 10
              [] OTHER              -> 19,
     username |-> username]

\* A GitLab user index (by username) holding the given accounts
GitlabUserIndex(names) == [n \in names |-> GitlabUser(n)]

NoUserDict == [loaded |-> FALSE, map |-> << >>]

UserDict(m) == [loaded |-> TRUE, map |-> m]

UserDicts ==
    { NoUserDict,
      UserDict(<< >>),
      UserDict("bob" :> "alice"),
      UserDict("carol" :> "dave"),
      UserDict(("alice" :> "root") @@ ("bob" :> "carol")) }

redmine_username_to_gitlab_username(redmine_username) ==
    IF user_dict.loaded /\ redmine_username \in DOMAIN user_dict.map
    THEN user_dict.map[redmine_username]
    ELSE redmine_username

\* Mutant: the override table is not consulted
redmine_uid_to_gitlab_user_NoOverride(redmine_id, redmine_user_index, gitlab_user_index) ==
    IF redmine_id \notin DOMAIN redmine_user_index THEN Raised("KeyError")
    ELSE LET redmine_login == redmine_user_index[redmine_id].login
             login == IF redmine_login \in DOMAIN gitlab_user_index
                      THEN redmine_login ELSE "root"
         IN  IF login \in DOMAIN gitlab_user_index
             THEN Returned(gitlab_user_index[login])
             ELSE Raised("KeyError")

redmine_uid_to_gitlab_user(redmine_id, redmine_user_index, gitlab_user_index) ==
    IF redmine_id \notin DOMAIN redmine_user_index THEN Raised("KeyError")
    ELSE LET redmine_login ==
                 redmine_username_to_gitlab_username(redmine_user_index[redmine_id].login)
             login == IF redmine_login \notin DOMAIN gitlab_user_index
                      THEN "root" ELSE redmine_login
         IN  IF login \in DOMAIN gitlab_user_index
             THEN Returned(gitlab_user_index[login])
             ELSE Raised("KeyError")

-----------------------------------------------------------------------------
(* Specification: calls of redmine_uid_to_gitlab_user *)

UserIds == 1 .. 4

\* The GitLab instance always has at least the account of the API token
GitlabAccountSets == (SUBSET {"alice", "bob", "root"}) \ { {} }

ResolveArgs ==
    [redmine_id : UserIds,
     redmine_user_index : {RedmineUserIndex},
     gitlab_user_index : { GitlabUserIndex(s) : s \in GitlabAccountSets }]

InitResolve ==
    /\ user_dict \in UserDicts
    /\ fn = "redmine_uid_to_gitlab_user"
    /\ args \in ResolveArgs
    /\ pc = "call"
    /\ ret = Pending
    /\ log = << >>
    /\ NoLocals
    /\ NoClient

CallResolve ==
    /\ fn = "redmine_uid_to_gitlab_user"
    /\ pc = "call"
    /\ ret' = redmine_uid_to_gitlab_user(
                  args.redmine_id, args.redmine_user_index, args.gitlab_user_index)
    /\ pc' = "done"
    /\ UNCHANGED <<client, user_dict, fn, args, log, locals>>

NextResolve == CallResolve

SpecResolve == InitResolve /\ [][NextResolve]_vars

ResolveDone == fn = "redmine_uid_to_gitlab_user" /\ pc = "done"

\* The login looked up in the GitLab index, derived from the call's inputs
MappedLogin(redmine_id, redmine_user_index) ==
    LET login == redmine_user_index[redmine_id].login
    IN  IF user_dict.loaded /\ login \in DOMAIN user_dict.map
        THEN user_dict.map[login] ELSE login

\* C1 (as stated): an absent id is a lookup failure; a present id always gets a
\* record, the mapped login's or else root's.
C1_Original ==
    ResolveDone =>
        IF args.redmine_id \notin DOMAIN args.redmine_user_index
        THEN ret = Raised("KeyError")
        ELSE LET m == MappedLogin(args.redmine_id, args.redmine_user_index)
             IN  /\ ret.status = "returned"
                 /\ ret.value.username =
                        (IF m \in DOMAIN args.gitlab_user_index THEN m ELSE "root")
                 /\ ret.value = GitlabUser(ret.value.username)

\* C1 (amended): an absent id is a lookup failure; a present id gets the mapped
\* login's record if that login is in the GitLab index, else root's record if
\* root is in the GitLab index, else the call is a lookup failure too.
C1_Resolve ==
    ResolveDone =>
        IF args.redmine_id \notin DOMAIN args.redmine_user_index
        THEN ret = Raised("KeyError")
        ELSE LET m == MappedLogin(args.redmine_id, args.redmine_user_index)
                 g == args.gitlab_user_index
             IN  IF m \in DOMAIN g THEN ret = Returned(g[m])
                 ELSE IF "root" \in DOMAIN g THEN ret = Returned(g["root"])
                 ELSE ret = Raised("KeyError")

\* C1 witness: a present id whose mapped login and root are both missing from
\* the GitLab index, and the call has failed
C1_Witness ==
    /\ ResolveDone
    /\ args.redmine_id \in DOMAIN args.redmine_user_index
    /\ user_dict.loaded
    /\ MappedLogin(args.redmine_id, args.redmine_user_index)
           # args.redmine_user_index[args.redmine_id].login
    /\ MappedLogin(args.redmine_id, args.redmine_user_index)
           \notin DOMAIN args.gitlab_user_index
    /\ "root" \notin DOMAIN args.gitlab_user_index
    /\ ret = Raised("KeyError")

-----------------------------------------------------------------------------
(* Text denormalizers *)

\* '{}'.format(v) of a text value: nothing for the empty string
Tok(v) == IF v = "" THEN << >> ELSE <<v>>

\* One relation bullet, '  * {} #{}'.format(kind, id)
Bullet(kind, id) == <<"  * ", kind, " #", ToString(id)>>

\* Mutant: the two endpoints are taken the wrong way round
relation_line_Swapped(i, issue_id) ==
    LET other_issue_id == IF issue_id = i.issue_id THEN i.issue_id ELSE i.issue_to_id
    IN  Bullet(i.relation_type, other_issue_id)

\* Body of the loop over relations
relation_line(i, issue_id) ==
    LET other_issue_id == IF issue_id = i.issue_id THEN i.issue_to_id ELSE i.issue_id
    IN  Bullet(i.relation_type, other_issue_id)

relations_to_string(relations, children, parent_id, issue_id) ==
    LET l == [k \in 1 .. Len(relations) |-> relation_line(relations[k], issue_id)]
             \o [k \in 1 .. Len(children) |-> Bullet("child", children[k].id)]
             \o (IF parent_id > 0 THEN << Bullet("parent", parent_id) >> ELSE << >>)
    IN  Join(<<"\n">>, l)

\* The three backquotes that open and close a fenced code block
Fence == "[code fence]"

\* Body of the loop over changesets; a changeset without user has no ' by ' part
changeset_line(i) ==
    LET by_user_str == IF "user" \in DOMAIN i THEN <<" by ">> \o Tok(i.user.name)
                       ELSE << >>
    IN  <<"  * ", "Revision ">> \o Tok(i.revision) \o by_user_str \o <<" on ">>
        \o Tok(i.committed_on) \o <<":\n\n", Fence, "\n">> \o Tok(i.comments) \o <<"\n", Fence, "\n">>

changesets_to_string(changesets) ==
    Join(<<"\n">>, [k \in 1 .. Len(changesets) |-> changeset_line(changesets[k])])

\* i.get('value') is true: the key is there and the value is not empty
HasValue(i) == "value" \in DOMAIN i /\ i.value # ""

\* Mutant: the allow-list is not consulted
custom_fields_to_string_NoAllowList(custom_fields, custom_fields_include) ==
    LET kept == SelectSeq(custom_fields, LAMBDA i : HasValue(i))
    IN  Join(<<"\n">>,
             [k \in 1 .. Len(kept) |-> <<"  * ", kept[k].name, ": ", kept[k].value>>])

custom_fields_to_string(custom_fields, custom_fields_include) ==
    LET kept == SelectSeq(custom_fields,
                          LAMBDA i : i.name \in custom_fields_include /\ HasValue(i))
    IN  Join(<<"\n">>,
             [k \in 1 .. Len(kept) |-> <<"  * ", kept[k].name, ": ", kept[k].value>>])

-----------------------------------------------------------------------------
(* Specification: calls of the three denormalizers *)

MaxRelations == 2
MaxChildren == 2
MaxChangesets == 2
MaxCustomFields == 2

\* The issue being converted, and the other issues it can be linked to
IssueId == 5
OtherIssueIds == {7, 9}

\* Redmine lists on an issue the relations that issue is an endpoint of, and a
\* relation links two different issues
Relations ==
    { [relation_type |-> t, issue_id |-> IssueId, issue_to_id |-> o] :
          t \in {"blocks", "relates"}, o \in OtherIssueIds }
    \cup
    { [relation_type |-> t, issue_id |-> o, issue_to_id |-> IssueId] :
          t \in {"blocks", "relates"}, o \in OtherIssueIds }

Children == { [id |-> o] : o \in OtherIssueIds }

ParentIds == {0, 3}

Changesets ==
    { [revision |-> "r1", committed_on |-> "2012-09-27", comments |-> c] :
          c \in {"", "fix #5"} }
    \cup
    { [revision |-> "r1", committed_on |-> "2012-09-27", comments |-> c,
       user |-> [name |-> "Alice A"]] : c \in {"", "fix #5"} }

CustomFieldNames == {"Customer", "Internal"}

CustomFields ==
    { [name |-> n] : n \in CustomFieldNames }
    \cup { [name |-> n, value |-> v] : n \in CustomFieldNames, v \in {"", "ACME"} }

RelationsArgs ==
    [relations : SeqsUpTo(Relations, MaxRelations),
     children : SeqsUpTo(Children, MaxChildren),
     parent_id : ParentIds,
     issue_id : {IssueId}]

ChangesetsArgs == [changesets : SeqsUpTo(Changesets, MaxChangesets)]

CustomFieldsArgs ==
    [custom_fields : SeqsUpTo(CustomFields, MaxCustomFields),
     custom_fields_include : SUBSET CustomFieldNames]

InitDenorm ==
    /\ user_dict = NoUserDict
    /\ \/ fn = "relations_to_string" /\ args \in RelationsArgs
       \/ fn = "changesets_to_string" /\ args \in ChangesetsArgs
       \/ fn = "custom_fields_to_string" /\ args \in CustomFieldsArgs
    /\ pc = "call"
    /\ ret = Pending
    /\ log = << >>
    /\ NoLocals
    /\ NoClient

CallRelations ==
    /\ fn = "relations_to_string"
    /\ pc = "call"
    /\ ret' = Returned(relations_to_string(
                  args.relations, args.children, args.parent_id, args.issue_id))
    /\ pc' = "done"
    /\ UNCHANGED <<client, user_dict, fn, args, log, locals>>

CallChangesets ==
    /\ fn = "changesets_to_string"
    /\ pc = "call"
    /\ ret' = Returned(changesets_to_string(args.changesets))
    /\ pc' = "done"
    /\ UNCHANGED <<client, user_dict, fn, args, log, locals>>

CallCustomFields ==
    /\ fn = "custom_fields_to_string"
    /\ pc = "call"
    /\ ret' = Returned(custom_fields_to_string(
                  args.custom_fields, args.custom_fields_include))
    /\ pc' = "done"
    /\ UNCHANGED <<client, user_dict, fn, args, log, locals>>

NextDenorm == CallRelations \/ CallChangesets \/ CallCustomFields

SpecDenorm == InitDenorm /\ [][NextDenorm]_vars

RelationsDone == fn = "relations_to_string" /\ pc = "done"
ChangesetsDone == fn = "changesets_to_string" /\ pc = "done"
CustomFieldsDone == fn = "custom_fields_to_string" /\ pc = "done"

StartsWithBullet(s) == s # << >> /\ s[1] = "  * "

\* C8 (as stated): each denormalizer returns the empty string for empty input
\* (for relations: no relation, no child, no parent) and a string starting
\* with the bullet marker whenever its input list is non-empty.
C8_Original ==
    /\ RelationsDone =>
           IF args.relations = << >> /\ args.children = << >> /\ args.parent_id <= 0
           THEN ret = Returned(<< >>) ELSE StartsWithBullet(ret.value)
    /\ ChangesetsDone =>
           IF args.changesets = << >>
           THEN ret = Returned(<< >>) ELSE StartsWithBullet(ret.value)
    /\ CustomFieldsDone =>
           IF args.custom_fields = << >>
           THEN ret = Returned(<< >>) ELSE StartsWithBullet(ret.value)

Qualifies(i, include) == i.name \in include /\ "value" \in DOMAIN i /\ i.value # ""

\* C8 (amended): each denormalizer returns a string, never None: the empty
\* string when nothing is to be listed (no relation, no child and no parent; no
\* changeset; no custom field that is allow-listed with a non-empty value), and
\* otherwise a non-empty string starting with the bullet marker.
C8_EmptyOrBullet ==
    /\ pc = "done" => ret.status = "returned"
    /\ RelationsDone =>
           IF args.relations = << >> /\ args.children = << >> /\ args.parent_id <= 0
           THEN ret.value = << >> ELSE StartsWithBullet(ret.value)
    /\ ChangesetsDone =>
           IF args.changesets = << >>
           THEN ret.value = << >> ELSE StartsWithBullet(ret.value)
    /\ CustomFieldsDone =>
           IF \A k \in 1 .. Len(args.custom_fields) :
                  ~Qualifies(args.custom_fields[k], args.custom_fields_include)
           THEN ret.value = << >> ELSE StartsWithBullet(ret.value)

\* C8 witness: a non-empty list of custom fields none of which qualifies, and
\* the empty string returned
C8_Witness ==
    /\ CustomFieldsDone
    /\ Len(args.custom_fields) = 2
    /\ args.custom_fields_include # {}
    /\ ret.value = << >>

\* The endpoint of a relation that is not the current issue
OtherEnd(r, issue_id) == CHOOSE e \in {r.issue_id, r.issue_to_id} : e # issue_id

\* C9: the result is one bullet per relation (its type and its other endpoint),
\* then one 'child' bullet per child, then a 'parent' bullet if there is a
\* parent, joined by newlines, and no bullet names the current issue.
C9_RelationsOrder ==
    RelationsDone =>
        LET s  == ret.value
            nr == Len(args.relations)
            nc == Len(args.children)
            n  == nr + nc + (IF args.parent_id > 0 THEN 1 ELSE 0)
        IN  /\ Len(s) = (IF n = 0 THEN 0 ELSE 5 * n - 1)
            /\ \A k \in 1 .. n :
                /\ s[5 * k - 4] = "  * "
                /\ s[5 * k - 2] = " #"
                /\ k < n => s[5 * k] = "\n"
                /\ s[5 * k - 1] # ToString(args.issue_id)
                /\ k <= nr =>
                       /\ s[5 * k - 3] = args.relations[k].relation_type
                       /\ s[5 * k - 1] =
                              ToString(OtherEnd(args.relations[k], args.issue_id))
                /\ (nr < k /\ k <= nr + nc) =>
                       /\ s[5 * k - 3] = "child"
                       /\ s[5 * k - 1] = ToString(args.children[k - nr].id)
                /\ k > nr + nc =>
                       /\ s[5 * k - 3] = "parent"
                       /\ s[5 * k - 1] = ToString(args.parent_id)

\* C9 witness: relations in both directions, a child and a parent, all listed
C9_Witness ==
    /\ RelationsDone
    /\ Len(args.relations) = 2
    /\ args.relations[1].issue_id = args.issue_id
    /\ args.relations[2].issue_to_id = args.issue_id
    /\ Len(args.children) = 1
    /\ args.parent_id > 0
    /\ Len(ret.value) = 19

-----------------------------------------------------------------------------
(* Notes *)

\* Python's None; '{}'.format(None) is the text 'None'
None == "None"

\* d.get(k, default)
Get(d, k, default) == IF k \in DOMAIN d THEN d[k] ELSE default

\* textile_converter.convert, the injected rich-text converter: total, and the
\* empty text converts to the empty text
textile_convert(text) == IF text = "" THEN << >> ELSE <<"md:", text>>

\* created_on[:10], the date of a timestamp <<date, time of day>>
Date10(timestamp) == timestamp[1]

Warning(about) == [level |-> "warning", about |-> about]

\* Lines 93-96: the inline author suffix of a note
note_creator_text(sudo, gitlab_author_found, author_name) ==
    IF ~sudo \/ ~gitlab_author_found THEN <<" by ">> \o Tok(author_name) ELSE << >>

\* Lines 73-104: the pair yielded for an entry whose notes are not empty, and
\* the warnings logged on the way.  entry['user'] raises KeyError when the
\* entry has no user, like the lookup of an unknown id.
note_of(entry, redmine_user_index, gitlab_user_index, sudo) ==
    LET journal_notes == textile_convert(entry.notes)
        resolved == IF "user" \in DOMAIN entry
                    THEN redmine_uid_to_gitlab_user(
                             entry.user.id, redmine_user_index, gitlab_user_index)
                    ELSE Raised("KeyError")
        gitlab_author_found == resolved.status = "returned"
        author == IF gitlab_author_found THEN resolved.value.username
                  ELSE ANONYMOUS_USERNAME
        author_name == IF "user" \in DOMAIN entry THEN entry.user.name ELSE None
        creator_text == note_creator_text(sudo, gitlab_author_found, author_name)
        body == journal_notes
                \o <<"\n\n*(from redmine: written on ", Date10(entry.created_on)>>
                \o creator_text \o <<")*">>
        data == [body |-> body, created_at |-> entry.created_on]
        meta == IF sudo THEN [sudo_user |-> author] ELSE << >>
    IN  [pair |-> <<data, meta>>,
         log  |-> IF gitlab_author_found THEN << >>
                  ELSE << Warning(<<"note author unknown", author_name>>) >>]

\* Mutant: only entries without notes are skipped, empty and null notes are not
entry_has_notes_KeyOnly(entry) == "notes" \in DOMAIN entry

\* Lines 67-72: the entry carries a comment
entry_has_notes(entry) ==
    LET journal_notes == Get(entry, "notes", "")
    IN  journal_notes # None /\ journal_notes # ""

\* The generator, run to its end: the pairs it yields and the warnings it logs
RECURSIVE convert_notes(_, _, _, _)
convert_notes(redmine_issue_journals, redmine_user_index, gitlab_user_index, sudo) ==
    IF redmine_issue_journals = << >> THEN [notes |-> << >>, log |-> << >>]
    ELSE LET entry == Head(redmine_issue_journals)
             rest  == convert_notes(Tail(redmine_issue_journals),
                                    redmine_user_index, gitlab_user_index, sudo)
         IN  IF entry_has_notes(entry)
             THEN LET n == note_of(entry, redmine_user_index, gitlab_user_index, sudo)
                  IN  [notes |-> << n.pair >> \o rest.notes, log |-> n.log \o rest.log]
             ELSE rest

-----------------------------------------------------------------------------
(* Specification: calls of convert_notes *)

MaxJournals == 3

\* The authors a journal entry can name: two known to Redmine, one not
JournalUsers ==
    { [id |-> 1, name |-> "Alice A"], [id |-> 2, name |-> "Bob B"],
      [id |-> 4, name |-> "Ghost"] }

\* Entries without notes, with null or empty notes, with a comment of an
\* anonymous author (no user) and with comments of the users above
JournalEntries ==
    { [created_on |-> <<"2012-09-27", "T08:20:07Z">>] }
    \cup { [created_on |-> <<"2012-09-27", "T08:20:07Z">>, notes |-> n] :
               n \in {None, "", "first"} }
    \cup { [created_on |-> <<"2012-09-27", "T08:20:07Z">>, notes |-> "first", user |-> u] :
               u \in JournalUsers }
    \cup { [created_on |-> <<"2012-10-01", "T10:00:00Z">>, notes |-> "second", user |-> u] :
               u \in JournalUsers }

NotesGitlabIndexes ==
    { GitlabUserIndex(s) : s \in { {"alice", "root"}, {"alice"}, {"bob", "root"} } }

NotesArgs ==
    [redmine_issue_journals : SeqsUpTo(JournalEntries, MaxJournals),
     redmine_user_index : {RedmineUserIndex},
     gitlab_user_index : NotesGitlabIndexes,
     sudo : BOOLEAN]

InitNotes ==
    /\ user_dict \in { NoUserDict, UserDict("bob" :> "alice") }
    /\ fn = "convert_notes"
    /\ args \in NotesArgs
    /\ pc = "call"
    /\ ret = Pending
    /\ log = << >>
    /\ NoLocals
    /\ NoClient

CallNotes ==
    /\ fn = "convert_notes"
    /\ pc = "call"
    /\ LET r == convert_notes(args.redmine_issue_journals, args.redmine_user_index,
                              args.gitlab_user_index, args.sudo)
       IN  /\ ret' = Returned(r.notes)
           /\ log' = log \o r.log
    /\ pc' = "done"
    /\ UNCHANGED <<client, user_dict, fn, args, locals>>

NextNotes == CallNotes

SpecNotes == InitNotes /\ [][NextNotes]_vars

NotesDone == fn = "convert_notes" /\ pc = "done"

\* The note text of an entry is present and not empty
HasText(e) == "notes" \in DOMAIN e /\ e.notes \notin {None, ""}

\* C5: convert_notes yields one pair for each entry with a non-empty note text
\* and nothing for the others, in the order of the entries.
C5_NotesFilterOrder ==
    NotesDone =>
        LET kept == SelectSeq(args.redmine_issue_journals, HasText)
        IN  /\ ret.status = "returned"
            /\ Len(ret.value) = Len(kept)
            /\ \A k \in 1 .. Len(kept) :
                   /\ ret.value[k][1].created_at = kept[k].created_on
                   /\ SubSeq(ret.value[k][1].body, 1, 2) = <<"md:", kept[k].notes>>

\* C5 witness: a skipped entry between two entries with different texts, and
\* two pairs yielded
C5_Witness ==
    /\ NotesDone
    /\ Len(args.redmine_issue_journals) = 3
    /\ HasText(args.redmine_issue_journals[1])
    /\ ~HasText(args.redmine_issue_journals[2])
    /\ HasText(args.redmine_issue_journals[3])
    /\ args.redmine_issue_journals[1].notes # args.redmine_issue_journals[3].notes
    /\ Len(ret.value) = 2

\* The resolver returns a record for the author of entry e
AuthorResolves(e, redmine_user_index, gitlab_user_index) ==
    /\ "user" \in DOMAIN e
    /\ e.user.id \in DOMAIN redmine_user_index
    /\ \/ MappedLogin(e.user.id, redmine_user_index) \in DOMAIN gitlab_user_index
       \/ "root" \in DOMAIN gitlab_user_index

\* The body of a note ends with ' by {name})*'
NoteHasSuffix(body, name) ==
    /\ Len(body) = 7
    /\ body[5] = " by "
    /\ body[6] = name

NoteLacksSuffix(body) == Len(body) = 5 /\ \A k \in 1 .. 5 : body[k] # " by "

\* C6: a yielded note omits the ' by {author_name}' suffix exactly when sudo is
\* requested and its author resolved, and so its authorship is always conveyed:
\* by impersonation of its author (sudo_user is the author's GitLab login) or by
\* the suffix naming the author.
C6_Original ==
    NotesDone =>
        LET kept == SelectSeq(args.redmine_issue_journals, HasText)
        IN  \A k \in 1 .. Len(ret.value) :
                LET e    == kept[k]
                    body == ret.value[k][1].body
                    meta == ret.value[k][2]
                    name == IF "user" \in DOMAIN e THEN e.user.name ELSE None
                    resolved == AuthorResolves(e, args.redmine_user_index,
                                               args.gitlab_user_index)
                IN  /\ IF args.sudo /\ resolved
                       THEN NoteLacksSuffix(body)
                       ELSE NoteHasSuffix(body, name)
                    /\ \/ NoteHasSuffix(body, name)
                       \/ /\ "sudo_user" \in DOMAIN meta
                          /\ meta.sudo_user =
                                 MappedLogin(e.user.id, args.redmine_user_index)

\* The first half of C6 alone, which the code satisfies: the suffix is omitted
\* exactly when sudo is requested and the resolver returned a record.
C6_SuffixRule ==
    NotesDone =>
        LET kept == SelectSeq(args.redmine_issue_journals, HasText)
        IN  \A k \in 1 .. Len(ret.value) :
                LET e    == kept[k]
                    body == ret.value[k][1].body
                    name == IF "user" \in DOMAIN e THEN e.user.name ELSE None
                IN  IF args.sudo /\ AuthorResolves(e, args.redmine_user_index,
                                                   args.gitlab_user_index)
                    THEN NoteLacksSuffix(body)
                    ELSE NoteHasSuffix(body, name)

-----------------------------------------------------------------------------
(* Issues *)

\* str.lower on the status names in use
Lower(name) ==
    CASE name = "New"      -> "new"
      [] name = "Closed"   -> "closed"
      [] name = "Rejected" -> "rejected"
      [] OTHER             -> name

convert_attachment(redmine_issue_attachment, redmine_api_key) ==
    [filename     |-> redmine_issue_attachment.filename,
     description  |-> Get(redmine_issue_attachment, "description", None),
     content_url  |-> <<redmine_issue_attachment.content_url, "?key=", redmine_api_key>>,
     content_type |-> Get(redmine_issue_attachment, "content_type",
                          "application/octet-stream")]

\* Lines 176-187.  An open issue has no closed_on (Redmine sends null, which
\* get() treats like a missing key).
issue_closed(redmine_issue, closed_states) ==
    LET issue_state == redmine_issue.status.name
    IN  IF "closed_on" \in DOMAIN redmine_issue
        THEN [close_text |-> <<", closed on ", Date10(redmine_issue.closed_on)>>,
              closed |-> TRUE]
        ELSE IF Lower(issue_state) \in closed_states
        THEN [close_text |-> <<", closed (state: ", issue_state, ")">>, closed |-> TRUE]
        ELSE [close_text |-> << >>, closed |-> FALSE]

\* Lines 189-207: the three denormalized sections, each with its header
issue_sections(redmine_issue, custom_fields_include) ==
    LET relations == Get(redmine_issue, "relations", << >>)
        children  == Get(redmine_issue, "children", << >>)
        parent_id == IF "parent" \in DOMAIN redmine_issue
                     THEN redmine_issue.parent.id ELSE 0
        relations_text ==
            relations_to_string(relations, children, parent_id, redmine_issue.id)
        changesets_text ==
            changesets_to_string(Get(redmine_issue, "changesets", << >>))
        custom_fields_text ==
            custom_fields_to_string(Get(redmine_issue, "custom_fields", << >>),
                                    custom_fields_include)
    IN  (IF Len(relations_text) > 0
         THEN <<"\n* Relations:\n">> \o relations_text ELSE relations_text)
        \o (IF Len(changesets_text) > 0
            THEN <<"\n* Changesets:\n">> \o changesets_text ELSE changesets_text)
        \o (IF Len(custom_fields_text) > 0
            THEN <<"\n* Custom Fields:\n">> \o custom_fields_text
            ELSE custom_fields_text)

\* Lines 209-215: the label names, joined by ',' at line 260
issue_labels(redmine_issue) ==
    << redmine_issue.tracker.name >>
    \o (IF "category" \in DOMAIN redmine_issue
        THEN << redmine_issue.category.name >> ELSE << >>)
    \o (IF "status" \in DOMAIN redmine_issue
        THEN << redmine_issue.status.name >> ELSE << >>)
    \o (IF "priority" \in DOMAIN redmine_issue
        THEN << redmine_issue.priority.name >> ELSE << >>)

\* Lines 219-222
issue_title(redmine_issue, keep_title) ==
    IF keep_title THEN Tok(redmine_issue.subject)
    ELSE <<"-RM-", ToString(redmine_issue.id), "-MR-">> \o Tok(redmine_issue.subject)

\* Mutant: an unknown author is attributed without the inline suffix
issue_author_NoSuffix(redmine_issue, redmine_user_index, gitlab_user_index, sudo) ==
    LET resolved == redmine_uid_to_gitlab_user(
                        redmine_issue.author.id, redmine_user_index, gitlab_user_index)
        gitlab_author_found == resolved.status = "returned"
    IN  [author_login |-> IF gitlab_author_found THEN resolved.value.username
                          ELSE ANONYMOUS_USERNAME,
         creator_text |-> IF ~sudo THEN <<" by ">> \o Tok(redmine_issue.author.name)
                          ELSE << >>,
         log |-> IF gitlab_author_found THEN << >>
                 ELSE << Warning(<<"issue author unknown", redmine_issue.id,
                                   redmine_issue.author.name>>) >>]

\* Lines 224-243: the login the issue is attributed to, the inline author
\* suffix and the warning of the fallback
issue_author(redmine_issue, redmine_user_index, gitlab_user_index, sudo) ==
    LET resolved == redmine_uid_to_gitlab_user(
                        redmine_issue.author.id, redmine_user_index, gitlab_user_index)
        gitlab_author_found == resolved.status = "returned"
    IN  [author_login |-> IF gitlab_author_found THEN resolved.value.username
                          ELSE ANONYMOUS_USERNAME,
         creator_text |-> IF ~sudo \/ ~gitlab_author_found
                          THEN <<" by ">> \o Tok(redmine_issue.author.name)
                          ELSE << >>,
         log |-> IF gitlab_author_found THEN << >>
                 ELSE << Warning(<<"issue author unknown", redmine_issue.id,
                                   redmine_issue.author.name>>) >>]

\* Mutant: a version without milestone is skipped like an unknown user
issue_milestone_Skipped(redmine_issue, gitlab_milestones_index) ==
    IF "fixed_version" \in DOMAIN redmine_issue
       /\ redmine_issue.fixed_version.name \in DOMAIN gitlab_milestones_index
    THEN Returned([milestone_id |->
             gitlab_milestones_index[redmine_issue.fixed_version.name].id])
    ELSE Returned(<< >>)

\* Lines 263-265: the keys added to data, or the KeyError of the index lookup
issue_milestone(redmine_issue, gitlab_milestones_index) ==
    IF "fixed_version" \in DOMAIN redmine_issue
    THEN IF redmine_issue.fixed_version.name \in DOMAIN gitlab_milestones_index
         THEN Returned([milestone_id |->
                  gitlab_milestones_index[redmine_issue.fixed_version.name].id])
         ELSE Raised("KeyError")
    ELSE Returned(<< >>)

\* Lines 276-284: the assignee_id added to data or the label added to labels,
\* and the warning of the latter
issue_assignee(redmine_issue, redmine_user_index, gitlab_user_index) ==
    IF "assigned_to" \notin DOMAIN redmine_issue
    THEN [assignee |-> << >>, label |-> << >>, log |-> << >>]
    ELSE LET assigned_to == redmine_issue.assigned_to
             resolved == redmine_uid_to_gitlab_user(
                             assigned_to.id, redmine_user_index, gitlab_user_index)
         IN  IF resolved.status = "returned"
             THEN [assignee |-> [assignee_id |-> resolved.value.id],
                   label |-> << >>, log |-> << >>]
             ELSE [assignee |-> << >>,
                   label |-> <<",">> \o Tok(assigned_to.name),
                   log |-> << Warning(<<"issue assignee unknown", redmine_issue.id,
                                        assigned_to.name>>) >>]

\* The outcome of the call and the records logged until it ended
convert_issue(redmine_api_key, redmine_issue, redmine_user_index, gitlab_user_index, gitlab_milestones_index, closed_states, custom_fields_include, keep_title, sudo) ==
    LET c == issue_closed(redmine_issue, closed_states)
        labels == issue_labels(redmine_issue)
        attachments == Get(redmine_issue, "attachments", << >>)
        a == issue_author(redmine_issue, redmine_user_index, gitlab_user_index, sudo)
        data ==
            [title |-> issue_title(redmine_issue, keep_title),
             description |->
                 textile_convert(Get(redmine_issue, "description", ""))
                 \o <<"\n\n*(from redmine: issue id ", ToString(redmine_issue.id),
                      ", created on ", Date10(redmine_issue.created_on)>>
                 \o a.creator_text \o c.close_text \o <<")*\n">>
                 \o issue_sections(redmine_issue, custom_fields_include),
             due_date |-> Get(redmine_issue, "due_date", None),
             created_at |-> redmine_issue.created_on,
             labels |-> Join(<<",">>, [k \in 1 .. Len(labels) |-> << labels[k] >>])]
        milestone == issue_milestone(redmine_issue, gitlab_milestones_index)
        notes == convert_notes(redmine_issue.journals, redmine_user_index,
                               gitlab_user_index, sudo)
        meta ==
            [notes |-> notes.notes,
             must_close |-> c.closed,
             uploads |-> [k \in 1 .. Len(attachments) |->
                              convert_attachment(attachments[k], redmine_api_key)]]
            @@ (IF sudo THEN [sudo_user |-> a.author_login] ELSE << >>)
        assignee == issue_assignee(redmine_issue, redmine_user_index, gitlab_user_index)
    IN  IF milestone.status = "raised"
        THEN [out |-> milestone, log |-> a.log]
        ELSE [out |-> Returned(
                  << [data EXCEPT !.labels = @ \o assignee.label]
                         @@ milestone.value @@ assignee.assignee,
                     meta,
                     redmine_issue.id >>),
              log |-> a.log \o notes.log \o assignee.log]

-----------------------------------------------------------------------------
(* Specification: calls of convert_issue *)

IssueAuthors ==
    { [id |-> 1, name |-> "Alice A"], [id |-> 2, name |-> "Bob B"],
      [id |-> 4, name |-> "Ghost"] }

\* The fields every issue of the runs has
IssueBase ==
    [id |-> IssueId,
     subject |-> "Search function broken",
     description |-> "No results",
     tracker |-> [name |-> "Bug"],
     created_on |-> <<"2012-09-27", "T08:20:07Z">>]

\* The optional parts of an issue: none of them, a priority alone, or all
IssueExtras ==
    { << >>,
      [priority |-> [name |-> "High"]],
      [priority |-> [name |-> "High"],
       category |-> [name |-> "UI"],
       due_date |-> "2012-10-31",
       parent |-> [id |-> 3],
       relations |-> << [relation_type |-> "blocks", issue_id |-> IssueId,
                         issue_to_id |-> 9] >>,
       children |-> << [id |-> 7] >>,
       changesets |-> << [revision |-> "r1", committed_on |-> "2012-09-27",
                          comments |-> "fix #5"] >>,
       custom_fields |-> << [name |-> "Customer", value |-> "ACME"] >>,
       attachments |-> << [filename |-> "log.txt",
                           content_url |-> "http://redmine/attachments/1"] >>] }

IssueJournals ==
    { << >>,
      << [created_on |-> <<"2012-09-27", "T08:20:07Z">>, notes |-> ""],
         [created_on |-> <<"2012-10-01", "T10:00:00Z">>, notes |-> "second",
          user |-> [id |-> 2, name |-> "Bob B"]] >>,
      << [created_on |-> <<"2012-10-01", "T10:00:00Z">>, notes |-> "first",
          user |-> [id |-> 4, name |-> "Ghost"]] >> }

Issues ==
    { IssueBase @@ [author |-> au, status |-> [name |-> st], journals |-> j]
          @@ assigned @@ version @@ closed_on @@ extras :
        au \in IssueAuthors,
        st \in {"New", "Closed"},
        j \in IssueJournals,
        assigned \in { << >> } \cup { [assigned_to |-> u] : u \in IssueAuthors },
        version \in { << >> }
                    \cup { [fixed_version |-> [name |-> n]] : n \in {"v1.0", "v2.0"} },
        closed_on \in { << >>, [closed_on |-> <<"2012-09-27", "T09:00:00Z">>] },
        extras \in IssueExtras }

\* The milestones created before the issues are converted
MilestonesIndex == "v1.0" :> [id |-> 101, title |-> "v1.0"]

IssueArgs ==
    [redmine_api_key : {"KEY"},
     redmine_issue : Issues,
     redmine_user_index : {RedmineUserIndex},
     gitlab_user_index : NotesGitlabIndexes,
     gitlab_milestones_index : {MilestonesIndex},
     closed_states : { {"closed", "rejected"}, {"Closed", "Rejected"}, {"resolved"} },
     custom_fields_include : {{"Customer"}},
     keep_title : BOOLEAN,
     sudo : BOOLEAN]

InitIssue ==
    /\ user_dict \in { NoUserDict, UserDict("bob" :> "alice") }
    /\ fn = "convert_issue"
    /\ args \in IssueArgs
    /\ pc = "call"
    /\ ret = Pending
    /\ log = << >>
    /\ NoLocals
    /\ NoClient

CallIssue ==
    /\ fn = "convert_issue"
    /\ pc = "call"
    /\ LET r == convert_issue(args.redmine_api_key, args.redmine_issue,
                              args.redmine_user_index, args.gitlab_user_index,
                              args.gitlab_milestones_index, args.closed_states,
                              args.custom_fields_include, args.keep_title, args.sudo)
       IN  /\ ret' = r.out
           /\ log' = log \o r.log
    /\ pc' = "done"
    /\ UNCHANGED <<client, user_dict, fn, args, locals>>

NextIssue == CallIssue

SpecIssue == InitIssue /\ [][NextIssue]_vars

IssueDone == fn = "convert_issue" /\ pc = "done"

\* The provenance line of a description: from '*(from redmine' to ')*'
Provenance(description) ==
    LET last == CHOOSE k \in 1 .. Len(description) :
                    /\ description[k] = ")*\n"
                    /\ \A j \in 1 .. k - 1 : description[j] # ")*\n"
    IN  SubSeq(description, 3, last)

\* The fixed version of the issue has a milestone, if it has a fixed version
MilestoneKnown ==
    "fixed_version" \in DOMAIN args.redmine_issue =>
        args.redmine_issue.fixed_version.name \in DOMAIN args.gitlab_milestones_index

\* C4: with a fixed version whose name is in the milestone index the payload
\* has that milestone's id; without fixed version it has no milestone_id; with
\* a fixed version missing from the index the call raises the lookup failure
\* and returns no payload.
C4_Milestone ==
    IssueDone =>
        LET issue == args.redmine_issue
            index == args.gitlab_milestones_index
        IN  IF "fixed_version" \notin DOMAIN issue
            THEN ret.status = "returned" /\ "milestone_id" \notin DOMAIN ret.value[1]
            ELSE IF issue.fixed_version.name \in DOMAIN index
            THEN /\ ret.status = "returned"
                 /\ "milestone_id" \in DOMAIN ret.value[1]
                 /\ ret.value[1].milestone_id = index[issue.fixed_version.name].id
            ELSE ret = Raised("KeyError")

\* C4 witness: an issue whose author and assignee are unknown (handled by
\* fallbacks) and whose fixed version has no milestone, and the call raised
C4_Witness ==
    /\ IssueDone
    /\ args.redmine_issue.author.id \notin DOMAIN args.redmine_user_index
    /\ "assigned_to" \in DOMAIN args.redmine_issue
    /\ args.redmine_issue.assigned_to.id \notin DOMAIN args.redmine_user_index
    /\ "fixed_version" \in DOMAIN args.redmine_issue
    /\ args.redmine_issue.fixed_version.name = "v2.0"
    /\ ret = Raised("KeyError")

\* The author of the issue under conversion is not in the Redmine user index
AuthorUnknown == args.redmine_issue.author.id \notin DOMAIN args.redmine_user_index

\* The conversion of the same issue, its author being user 1 (who resolves)
\* under the same name, with the given sudo
TwinOfKnownAuthor(sudo) ==
    convert_issue(args.redmine_api_key,
                  [args.redmine_issue EXCEPT !.author.id = 1],
                  args.redmine_user_index, args.gitlab_user_index,
                  args.gitlab_milestones_index, args.closed_states,
                  args.custom_fields_include, args.keep_title, sudo).out

\* What C2 says of a returned payload: the inline suffix, the anonymous
\* attribution, and the rest as for a resolved author
AnonymousPayload ==
    LET data == ret.value[1]
        meta == ret.value[2]
    IN  /\ Len(Provenance(data.description)) >= 6
        /\ SubSeq(Provenance(data.description), 5, 6)
               = <<" by ", args.redmine_issue.author.name>>
        /\ IF args.sudo
           THEN "sudo_user" \in DOMAIN meta /\ meta.sudo_user = ANONYMOUS_USERNAME
           ELSE "sudo_user" \notin DOMAIN meta
        /\ data = TwinOfKnownAuthor(FALSE).value[1]
        /\ \A k \in {"notes", "must_close", "uploads"} :
               meta[k] = TwinOfKnownAuthor(args.sudo).value[2][k]
        /\ ret.value[3] = args.redmine_issue.id

AuthorWarning ==
    Warning(<<"issue author unknown", args.redmine_issue.id,
              args.redmine_issue.author.name>>)

\* C2 (as stated): for every issue whose author id is not in the Redmine user
\* index convert_issue does not raise; it returns a payload with the inline
\* author suffix, attributed to the anonymous author, after logging a warning.
C2_Original ==
    (IssueDone /\ AuthorUnknown) =>
        /\ ret.status = "returned"
        /\ AnonymousPayload
        /\ log # << >> /\ log[1] = AuthorWarning

\* C2 (amended): for every issue whose author id is not in the Redmine user
\* index a warning is logged and the author lookup does not make convert_issue
\* raise: if the fixed version (if any) is in the milestone index it returns a
\* payload with the inline author suffix, attributed to the anonymous author,
\* the rest as for a resolved author; otherwise it raises the milestone's
\* lookup failure.
C2_AnonymousAuthor ==
    (IssueDone /\ AuthorUnknown) =>
        /\ log # << >> /\ log[1] = AuthorWarning
        /\ IF MilestoneKnown
           THEN ret.status = "returned" /\ AnonymousPayload
           ELSE ret = Raised("KeyError")

\* C2 witness: sudo requested, the author unknown, a payload returned
C2_Witness ==
    /\ IssueDone
    /\ AuthorUnknown
    /\ args.sudo
    /\ "closed_on" \in DOMAIN args.redmine_issue
    /\ ret.status = "returned"
    /\ ret.value[2].sudo_user = ANONYMOUS_USERNAME
    /\ ret.value[2].must_close

\* The labels of tracker, category, status and priority, as the issue has them
BaseLabels ==
    LET issue == args.redmine_issue
        names == << issue.tracker.name >>
                 \o (IF "category" \in DOMAIN issue THEN << issue.category.name >>
                     ELSE << >>)
                 \o << issue.status.name >>
                 \o (IF "priority" \in DOMAIN issue THEN << issue.priority.name >>
                     ELSE << >>)
    IN  Join(<<",">>, [k \in 1 .. Len(names) |-> << names[k] >>])

\* The resolver raises for the assignee: the id is unknown to Redmine, or
\* GitLab has neither the mapped login nor root
AssigneeFails ==
    LET u == args.redmine_issue.assigned_to
    IN  \/ u.id \notin DOMAIN args.redmine_user_index
        \/ /\ MappedLogin(u.id, args.redmine_user_index)
                  \notin DOMAIN args.gitlab_user_index
           /\ "root" \notin DOMAIN args.gitlab_user_index

\* C3: when the assignee's resolution fails the payload has no assignee_id and
\* the assignee's name is one more label at the end; when it succeeds
\* assignee_id is the resolved user's id and the labels are unchanged; and the
\* assignee_id is never that of a fallback account put in the assignee's place.
C3_Original ==
    (IssueDone /\ "assigned_to" \in DOMAIN args.redmine_issue /\ MilestoneKnown) =>
        /\ ret.status = "returned"
        /\ LET data == ret.value[1]
               u    == args.redmine_issue.assigned_to
           IN  IF AssigneeFails
               THEN /\ "assignee_id" \notin DOMAIN data
                    /\ data.labels = BaseLabels \o <<",", u.name>>
               ELSE /\ "assignee_id" \in DOMAIN data
                    /\ data.labels = BaseLabels
                    /\ MappedLogin(u.id, args.redmine_user_index)
                           \in DOMAIN args.gitlab_user_index
                    /\ data.assignee_id =
                           args.gitlab_user_index[
                               MappedLogin(u.id, args.redmine_user_index)].id

\* What the code does for an assignee, C3 but for its last sentence: the
\* assignee_id is the id of whatever record the resolver returned, root's
\* included, and no warning tells of the substitution.
C3_AssigneeOrLabel ==
    (IssueDone /\ "assigned_to" \in DOMAIN args.redmine_issue /\ MilestoneKnown) =>
        /\ ret.status = "returned"
        /\ LET data == ret.value[1]
               u    == args.redmine_issue.assigned_to
               m    == MappedLogin(u.id, args.redmine_user_index)
               g    == args.gitlab_user_index
           IN  IF AssigneeFails
               THEN /\ "assignee_id" \notin DOMAIN data
                    /\ data.labels = BaseLabels \o <<",", u.name>>
               ELSE /\ "assignee_id" \in DOMAIN data
                    /\ data.labels = BaseLabels
                    /\ data.assignee_id = (IF m \in DOMAIN g THEN g[m].id
                                           ELSE g["root"].id)

\* The status name is in the closed-state set, compared case-insensitively
StatusClosed ==
    \E s \in args.closed_states : Lower(s) = Lower(args.redmine_issue.status.name)

\* The close suffix C7 expects in the provenance line
ExpectedCloseText ==
    IF "closed_on" \in DOMAIN args.redmine_issue
    THEN <<", closed on ", Date10(args.redmine_issue.closed_on)>>
    ELSE IF StatusClosed
    THEN <<", closed (state: ", args.redmine_issue.status.name, ")">>
    ELSE << >>

\* C7: must_close is true exactly when closed_on is set or the status name is,
\* case-insensitively, in the closed-state set; the provenance line ends with
\* 'closed on {date}' in the first case, 'closed (state: {status})' in the
\* second, and has no close suffix for an open issue.
C7_Original ==
    (IssueDone /\ ret.status = "returned") =>
        LET prov == Provenance(ret.value[1].description)
            creator == IF prov[5] = " by " THEN SubSeq(prov, 5, 6) ELSE << >>
        IN  /\ ret.value[2].must_close
                   = ("closed_on" \in DOMAIN args.redmine_issue \/ StatusClosed)
            /\ prov = <<"\n\n*(from redmine: issue id ",
                        ToString(args.redmine_issue.id),
                        ", created on ", Date10(args.redmine_issue.created_on)>>
                      \o creator \o ExpectedCloseText \o <<")*\n">>

\* C7 restricted to closed-state sets written in lower case, where the code
\* agrees with it
C7_LowerCaseStates ==
    (IssueDone /\ ret.status = "returned"
       /\ \A s \in args.closed_states : Lower(s) = s) =>
        LET prov == Provenance(ret.value[1].description)
            creator == IF prov[5] = " by " THEN SubSeq(prov, 5, 6) ELSE << >>
        IN  /\ ret.value[2].must_close
                   = ("closed_on" \in DOMAIN args.redmine_issue \/ StatusClosed)
            /\ prov = <<"\n\n*(from redmine: issue id ",
                        ToString(args.redmine_issue.id),
                        ", created on ", Date10(args.redmine_issue.created_on)>>
                      \o creator \o ExpectedCloseText \o <<")*\n">>

-----------------------------------------------------------------------------
(* GitlabProject.create_issue, one HTTP exchange per step *)

api_url == <<"https://gitlab/api/v4/projects/", "13">>

uploads_url == api_url \o <<"/uploads">>

issues_url == api_url \o <<"/issues">>

\* What urlopen(u['content_url']) reads for a descriptor
Content(u) == <<"content of">> \o u.content_url

\* A file name is a sequence of characters; these are the ones beyond ASCII
NonAscii == {"u-umlaut"}

remove_non_ascii(text) ==
    [j \in 1 .. Len(text) |-> IF text[j] \in NonAscii THEN " " ELSE text[j]]

\* upload['markdown'] of GitLab's answer to an upload: a link to what it got
Markdown(file) == <<"[">> \o file[1] \o <<"](/uploads/">> \o file[2] \o <<")">>

\* GitLab's answer to the creation of an issue
IssueResponse(payload) == [id |-> 1376, iid |-> 10, title |-> payload.title]

Error(about) == [level |-> "error", about |-> about]

\* A request and whether it succeeded
Request(kind, method, url, body, headers, ok) ==
    [kind |-> kind, method |-> method, url |-> url, body |-> body,
     headers |-> headers, ok |-> ok]

Fetch(u, ok) == Request("fetch", "GET", u.content_url, << >>, << >>, ok)

\* The call ends by raising exc
Raise(exc) ==
    /\ ret' = Raised(exc)
    /\ pc' = "done"

\* Lines 116-128: urlopen of the upload at hand.  A 404 gives the placeholder
\* entry; another HTTPError is swallowed and leaves 'files' as it was; any
\* other failure leaves the call.
FetchAttachment ==
    /\ fn = "create_issue"
    /\ pc = "upload_fetch"
    /\ ci_idx <= Len(args.meta.uploads)
    /\ LET u == args.meta.uploads[ci_idx]
       IN  \E outcome \in {"ok", "404", "http_error", "url_error"} :
             /\ sent' = Append(sent, Fetch(u, outcome = "ok"))
             /\ CASE outcome = "ok" ->
                       /\ ci_files' = Bound(<<u.filename, Content(u), u.content_type>>)
                       /\ pc' = "upload_post"
                       /\ UNCHANGED <<ci_l, ci_idx, ret>>
                  [] outcome = "404" ->
                       /\ ci_l' = Append(ci_l,
                              <<"(attachment did not exist in redmine)", " ">>
                              \o Tok(u.description))
                       /\ ci_idx' = ci_idx + 1
                       /\ UNCHANGED <<ci_files, pc, ret>>
                  [] outcome = "http_error" ->
                       /\ pc' = "upload_post"
                       /\ UNCHANGED <<ci_files, ci_l, ci_idx, ret>>
                  [] outcome = "url_error" ->
                       /\ Raise("URLError")
                       /\ UNCHANGED <<ci_files, ci_l, ci_idx>>
    /\ UNCHANGED <<client, user_dict, fn, args, log, ci_data, ci_issue, ci_issue_url,
                   ci_issue_notes_url>>

\* Lines 130-141: the upload POST of 'files'.  An HTTPError leads to the retry;
\* any other failure, and the use of an unbound 'files', leaves the call.
PostUpload ==
    /\ fn = "create_issue"
    /\ pc = "upload_post"
    /\ LET u == args.meta.uploads[ci_idx]
       IN  IF ~ci_files.bound
           THEN /\ Raise("UnboundLocalError")
                /\ UNCHANGED <<sent, ci_l, ci_idx>>
           ELSE \E outcome \in {"ok", "http_error", "connection_error"} :
                  /\ sent' = Append(sent,
                         Request("upload", "POST", uploads_url, ci_files.v, << >>,
                                 outcome = "ok"))
                  /\ CASE outcome = "ok" ->
                            /\ ci_l' = Append(ci_l,
                                   Markdown(ci_files.v) \o <<" ">> \o Tok(u.description))
                            /\ ci_idx' = ci_idx + 1
                            /\ pc' = "upload_fetch"
                            /\ UNCHANGED ret
                       [] outcome = "http_error" ->
                            /\ pc' = "upload_retry"
                            /\ UNCHANGED <<ci_l, ci_idx, ret>>
                       [] outcome = "connection_error" ->
                            /\ Raise("ConnectionError")
                            /\ UNCHANGED <<ci_l, ci_idx>>
    /\ UNCHANGED <<client, user_dict, fn, args, log, ci_data, ci_files, ci_issue,
                   ci_issue_url, ci_issue_notes_url>>

\* Lines 133-141: the retry with an ASCII-only file name: a new urlopen and a
\* second POST, whose failures leave the call
RetryUpload ==
    /\ fn = "create_issue"
    /\ pc = "upload_retry"
    /\ LET u == args.meta.uploads[ci_idx]
           again == <<remove_non_ascii(u.filename), Content(u), u.content_type>>
       IN  \E outcome \in {"fetch_failed", "ok", "failed"} :
             IF outcome = "fetch_failed"
             THEN /\ sent' = Append(sent, Fetch(u, FALSE))
                  /\ Raise("HTTPError")
                  /\ UNCHANGED <<ci_files, ci_l, ci_idx>>
             ELSE /\ sent' = sent \o
                         << Fetch(u, TRUE),
                            Request("upload", "POST", uploads_url, again, << >>,
                                    outcome = "ok") >>
                  /\ ci_files' = Bound(again)
                  /\ IF outcome = "ok"
                     THEN /\ ci_l' = Append(ci_l,
                                 Markdown(again) \o <<" ">> \o Tok(u.description))
                          /\ ci_idx' = ci_idx + 1
                          /\ pc' = "upload_fetch"
                          /\ UNCHANGED ret
                     ELSE /\ Raise("HTTPError")
                          /\ UNCHANGED <<ci_l, ci_idx>>
    /\ UNCHANGED <<client, user_dict, fn, args, log, ci_data, ci_issue, ci_issue_url,
                   ci_issue_notes_url>>

\* Lines 143 and 160-162: the entries joined and added to the description
FinishUploads ==
    /\ fn = "create_issue"
    /\ pc = "upload_fetch"
    /\ ci_idx > Len(args.meta.uploads)
    /\ LET uploads_text == Join(<<"\n  * ">>, ci_l)
       IN  ci_data' = IF Len(uploads_text) > 0
                      THEN Bound([ci_data.v EXCEPT !.description =
                                      @ \o <<"\n* Uploads:\n  * ">> \o uploads_text])
                      ELSE ci_data
    /\ pc' = "issue_post"
    /\ UNCHANGED <<client, user_dict, fn, args, ret, log, ci_l, ci_files, ci_issue,
                   ci_issue_url, ci_issue_notes_url, ci_idx, sent>>

\* The SUDO header of a request made for meta
SudoHeaders(meta) ==
    IF "sudo_user" \in DOMAIN meta THEN [SUDO |-> meta.sudo_user] ELSE << >>

\* Mutant: the URLs are built from the placeholder issue when the POST failed
issue_urls_Placeholder(ok, answer) ==
    [issue |-> IF ok THEN Bound(answer) ELSE Unbound,
     issue_url |-> Bound(issues_url \o <<"/", ToString(IF ok THEN answer.iid ELSE 0)>>),
     issue_notes_url |->
         Bound(issues_url \o <<"/", ToString(IF ok THEN answer.iid ELSE 0), "/notes">>),
     log |-> IF ok THEN << >> ELSE << Error("creating issue failed") >>]

\* Lines 169-182: the locals bound after the issue POST, and the errors
\* logged: a failed POST leaves 'issue' unbound, and then the two URLs too
issue_urls(ok, answer) ==
    IF ok
    THEN [issue |-> Bound(answer),
          issue_url |-> Bound(issues_url \o <<"/", ToString(answer.iid)>>),
          issue_notes_url |->
              Bound(issues_url \o <<"/", ToString(answer.iid), "/notes">>),
          log |-> << >>]
    ELSE [issue |-> Unbound, issue_url |-> Unbound, issue_notes_url |-> Unbound,
          log |-> << Error("creating issue failed"),
                     Error("creating note url failed") >>]

\* Lines 164-182: the issue POST
PostIssue ==
    /\ fn = "create_issue"
    /\ pc = "issue_post"
    /\ \E ok \in BOOLEAN :
         LET bound == issue_urls(ok, IssueResponse(ci_data.v))
         IN  /\ sent' = Append(sent,
                    Request("issue", "POST", issues_url, ci_data.v,
                            SudoHeaders(args.meta), ok))
             /\ ci_issue' = bound.issue
             /\ ci_issue_url' = bound.issue_url
             /\ ci_issue_notes_url' = bound.issue_notes_url
             /\ log' = log \o bound.log
    /\ ci_idx' = 1
    /\ pc' = "note_post"
    /\ UNCHANGED <<client, user_dict, fn, args, ret, ci_data, ci_l, ci_files>>

\* Lines 183-192: the POST of the note at hand; with 'issue_notes_url' unbound
\* the NameError is caught and logged like a failed POST
PostNote ==
    /\ fn = "create_issue"
    /\ pc = "note_post"
    /\ ci_idx <= Len(args.meta.notes)
    /\ LET note_data == args.meta.notes[ci_idx][1]
           note_meta == args.meta.notes[ci_idx][2]
       IN  IF ~ci_issue_notes_url.bound
           THEN /\ log' = Append(log, Error("adding note failed"))
                /\ UNCHANGED sent
           ELSE \E ok \in BOOLEAN :
                  /\ sent' = Append(sent,
                         Request("note", "POST", ci_issue_notes_url.v, note_data,
                                 SudoHeaders(note_meta), ok))
                  /\ log' = IF ok THEN log ELSE Append(log, Error("adding note failed"))
    /\ ci_idx' = ci_idx + 1
    /\ UNCHANGED <<client, user_dict, fn, args, pc, ret, ci_data, ci_l, ci_files, ci_issue,
                   ci_issue_url, ci_issue_notes_url>>

\* Lines 194-205: the close PUT if the issue must be closed, and the return
\* of the issue or of its placeholder
CloseAndReturn ==
    /\ fn = "create_issue"
    /\ pc = "note_post"
    /\ ci_idx > Len(args.meta.notes)
    /\ IF args.meta.must_close
       THEN IF ~ci_issue_url.bound
            THEN /\ log' = Append(log, Error("setting closed status failed"))
                 /\ UNCHANGED sent
            ELSE \E ok \in BOOLEAN :
                   /\ sent' = Append(sent,
                          Request("close", "PUT", ci_issue_url.v,
                                  [state_event |-> "close"], << >>, ok))
                   /\ log' = IF ok THEN log
                             ELSE Append(log, Error("setting closed status failed"))
       ELSE UNCHANGED <<sent, log>>
    /\ ret' = Returned(IF ci_issue.bound THEN ci_issue.v
                       ELSE [id |-> 0, iid |-> 0, title |-> ci_data.v.title])
    /\ pc' = "done"
    /\ UNCHANGED <<client, user_dict, fn, args, ci_data, ci_l, ci_files, ci_issue,
                   ci_issue_url, ci_issue_notes_url, ci_idx>>

-----------------------------------------------------------------------------
(* Specification: one call of GitlabProject.create_issue *)

MaxUploads == 2
MaxNotes == 2

UploadDescriptors ==
    { [filename |-> <<"l", "o", "g">>, description |-> "server log",
       content_url |-> <<"http://redmine/attachments/1", "?key=", "KEY">>,
       content_type |-> "text/plain"],
      [filename |-> <<"u-umlaut", "b", "e", "r">>, description |-> None,
       content_url |-> <<"http://redmine/attachments/2", "?key=", "KEY">>,
       content_type |-> "application/octet-stream"] }

\* Pairs as convert_notes yields them, with and without sudo_user
NotePairs ==
    { << [body |-> <<"md:", "first">>, created_at |-> <<"2012-09-27", "T08:20:07Z">>],
         [sudo_user |-> "bob"] >>,
      << [body |-> <<"md:", "second">>, created_at |-> <<"2012-10-01", "T10:00:00Z">>],
         << >> >> }

IssuePayload ==
    [title |-> <<"-RM-", "5", "-MR-", "Search function broken">>,
     description |-> <<"md:", "No results">>,
     labels |-> <<"Bug", ",", "New">>]

CreateIssueArgs ==
    { [data |-> IssuePayload,
       meta |-> [uploads |-> ups, notes |-> ns, must_close |-> mc] @@ su] :
        ups \in SeqsUpTo(UploadDescriptors, MaxUploads),
        ns \in SeqsUpTo(NotePairs, MaxNotes),
        mc \in BOOLEAN,
        su \in { << >>, [sudo_user |-> "alice"] } }

\* The call has been entered: the locals of lines 114-115 are set
InitCreate ==
    /\ user_dict = NoUserDict
    /\ fn = "create_issue"
    /\ args \in CreateIssueArgs
    /\ pc = "upload_fetch"
    /\ ret = Pending
    /\ log = << >>
    /\ ci_data = Bound(args.data)
    /\ ci_l = << >>
    /\ ci_files = Unbound
    /\ ci_issue = Unbound
    /\ ci_issue_url = Unbound
    /\ ci_issue_notes_url = Unbound
    /\ ci_idx = 1
    /\ sent = << >>
    /\ NoClient

NextCreate ==
    \/ FetchAttachment
    \/ PostUpload
    \/ RetryUpload
    \/ FinishUploads
    \/ PostIssue
    \/ PostNote
    \/ CloseAndReturn

SpecCreate == InitCreate /\ [][NextCreate]_vars

\* The place of a request in the order C10 gives
Rank(kind) ==
    CASE kind \in {"fetch", "upload"} -> 1
      [] kind = "issue" -> 2
      [] kind = "note"  -> 3
      [] kind = "close" -> 4

SentOfKind(kind) == SelectSeq(sent, LAMBDA r : r.kind = kind)

\* C10: the requests of a call go out in the order uploads, issue POST, note
\* POSTs in list order, close PUT (only if must_close); a note POST or close
\* PUT is sent only after a successful issue POST; a failed issue POST is
\* logged, not raised, and the call returns the placeholder with id 0 and
\* iid 0; a failed note POST stops neither the other notes nor the close.
C10_CallOrder ==
    fn = "create_issue" =>
        LET posts  == SentOfKind("issue")
            notes  == SentOfKind("note")
            closes == SentOfKind("close")
        IN  /\ \A i, j \in 1 .. Len(sent) :
                   i < j => Rank(sent[i].kind) <= Rank(sent[j].kind)
            /\ Len(posts) <= 1
            /\ Len(closes) <= 1
            /\ posts # << >> => Len(ci_l) = Len(args.meta.uploads)
            /\ (notes # << >> \/ closes # << >>) => (posts # << >> /\ posts[1].ok)
            /\ Len(notes) <= Len(args.meta.notes)
            /\ \A i \in 1 .. Len(notes) :
                   /\ notes[i].body = args.meta.notes[i][1]
                   /\ notes[i].method = "POST"
            /\ closes # << >> => (args.meta.must_close /\ closes[1].method = "PUT")
            /\ (posts # << >> /\ pc = "done") =>
                   /\ ret.status = "returned"
                   /\ IF posts[1].ok
                      THEN /\ Len(notes) = Len(args.meta.notes)
                           /\ (closes # << >>) = args.meta.must_close
                           /\ ret.value = IssueResponse(ci_data.v)
                      ELSE /\ ret.value = [id |-> 0, iid |-> 0,
                                           title |-> args.data.title]
                           /\ \E i \in 1 .. Len(log) :
                                  log[i] = Error("creating issue failed")

\* C10 witness: two uploads, the issue created, the first note POST failed,
\* the second note and the close sent all the same, and the issue returned
C10_Witness ==
    /\ fn = "create_issue"
    /\ pc = "done"
    /\ Len(SentOfKind("upload")) = 2
    /\ Len(SentOfKind("note")) = 2
    /\ ~SentOfKind("note")[1].ok
    /\ SentOfKind("note")[2].ok
    /\ Len(SentOfKind("close")) = 1
    /\ ret.status = "returned"
    /\ ret.value.iid # 0

-----------------------------------------------------------------------------
(* GitlabProject.create_milestone, over the calls made on one project *)

milestones_url == api_url \o <<"/milestones">>

MaxCalls == 3

MilestoneTitles == {"v1.0", "v2.0"}

\* What convert_version hands over: the payload and whether to close
MilestoneArgs ==
    { [data |-> [title |-> t,
                 description |-> <<"notes of ", t,
                     "\n\n*(from redmine: created on ", "2020-01-01", ")*">>],
       meta |-> [must_close |-> mc]] :
        t \in MilestoneTitles, mc \in BOOLEAN }

\* The milestones a project may hold before the migration starts
InitialMilestones ==
    { << >>,
      << [id |-> 1, title |-> "v1.0", state |-> "active"] >>,
      << [id |-> 1, title |-> "v1.0", state |-> "closed"] >> }

\* Whether a list of milestones has one of that title
HasTitle(milestones, _title) ==
    \E i \in 1 .. Len(milestones) : milestones[i].title = _title

\* Lines 265-270: the first milestone of that title, ValueError if none
get_milestone_by_title(milestones, _title) ==
    IF HasTitle(milestones, _title)
    THEN Returned(milestones[CHOOSE i \in 1 .. Len(milestones) :
                      /\ milestones[i].title = _title
                      /\ \A j \in 1 .. i - 1 : milestones[j].title # _title])
    ELSE Raised("ValueError")

\* GitLab's answer to the creation of a milestone in a project holding 'held'
MilestoneResponse(payload, held) ==
    [id |-> Len(held) + 1, title |-> payload.title, state |-> "active"]

\* The project's milestones once the one of that id is closed
Closed(held, id) ==
    [i \in 1 .. Len(held) |->
        IF held[i].id = id THEN [held[i] EXCEPT !.state = "closed"] ELSE held[i]]

\* Lines 249-253 and 224-226: a call is entered and looks the title up in
\* the milestones cached on the object, which the first lookup fetches from
\* the project and no later one refreshes.
LookupMilestone ==
    /\ fn = "create_milestone"
    /\ pc \in {"call", "done"}
    /\ ncalls < MaxCalls
    /\ ncalls' = ncalls + 1
    /\ \E a \in MilestoneArgs :
         /\ args' = a
         /\ \E fetched \in (IF cache_milestones.bound THEN {TRUE} ELSE BOOLEAN) :
              /\ sent' = IF cache_milestones.bound THEN sent
                         ELSE Append(sent, Request("milestones", "GET",
                                  milestones_url, << >>, << >>, fetched))
              /\ IF ~fetched
                 THEN /\ Raise("HTTPError")
                      /\ UNCHANGED <<cache_milestones, cm_milestone>>
                 ELSE /\ cache_milestones' =
                            IF cache_milestones.bound THEN cache_milestones
                            ELSE Bound(project_milestones)
                      /\ LET found == get_milestone_by_title(
                                          cache_milestones'.v, a.data.title)
                         IN  IF found.status = "returned"
                             THEN /\ cm_milestone' = Bound(found.value)
                                  /\ pc' = "milestone_close"
                             ELSE /\ cm_milestone' = Unbound
                                  /\ pc' = "milestone_post"
                      /\ ret' = Pending
    /\ UNCHANGED <<user_dict, fn, log, ci_data, ci_l, ci_files, ci_issue,
                   ci_issue_url, ci_issue_notes_url, ci_idx, collection,
                   result, page, project_milestones>>

\* Line 227: the creation POST.  GitLab refuses a title the project already
\* holds, and any request may fail; the failure leaves the call.
PostMilestone ==
    /\ fn = "create_milestone"
    /\ pc = "milestone_post"
    /\ \E ok \in (IF HasTitle(project_milestones, args.data.title)
                  THEN {FALSE} ELSE BOOLEAN) :
         /\ sent' = Append(sent, Request("milestone", "POST", milestones_url,
                                         args.data, << >>, ok))
         /\ IF ok
            THEN LET milestone == MilestoneResponse(args.data, project_milestones)
                 IN  /\ project_milestones' = Append(project_milestones, milestone)
                     /\ cm_milestone' = Bound(milestone)
                     /\ pc' = "milestone_close"
                     /\ UNCHANGED ret
            ELSE /\ Raise("HTTPError")
                 /\ UNCHANGED <<project_milestones, cm_milestone>>
    /\ UNCHANGED <<user_dict, fn, args, log, ci_data, ci_l, ci_files, ci_issue,
                   ci_issue_url, ci_issue_notes_url, ci_idx, collection,
                   result, page, cache_milestones, ncalls>>

\* Lines 229-235: the close PUT when asked for and the milestone at hand does
\* not say 'closed', then the return of that milestone.
CloseMilestone ==
    /\ fn = "create_milestone"
    /\ pc = "milestone_close"
    /\ LET milestone == cm_milestone.v
       IN  IF args.meta.must_close /\ milestone.state # "closed"
           THEN \E ok \in BOOLEAN :
                  /\ sent' = Append(sent, Request("milestone_close", "PUT",
                                 milestones_url \o <<"/", ToString(milestone.id)>>,
                                 milestone @@ [state_event |-> "close"],
                                 << >>, ok))
                  /\ IF ok
                     THEN /\ project_milestones' =
                                Closed(project_milestones, milestone.id)
                          /\ ret' = Returned(milestone)
                          /\ pc' = "done"
                     ELSE /\ Raise("HTTPError")
                          /\ UNCHANGED project_milestones
           ELSE /\ ret' = Returned(milestone)
                /\ pc' = "done"
                /\ UNCHANGED <<sent, project_milestones>>
    /\ UNCHANGED <<user_dict, fn, args, log, ci_data, ci_l, ci_files, ci_issue,
                   ci_issue_url, ci_issue_notes_url, ci_idx, collection,
                   result, page, cache_milestones, cm_milestone, ncalls>>

\* A GitlabProject has been constructed and no milestone call made on it
InitMilestone ==
    /\ user_dict = NoUserDict
    /\ fn = "create_milestone"
    /\ args = << >>
    /\ pc = "call"
    /\ ret = Pending
    /\ log = << >>
    /\ NoLocals
    /\ NoGet
    /\ project_milestones \in InitialMilestones
    /\ cache_milestones = Unbound
    /\ cm_milestone = Unbound
    /\ ncalls = 0

NextMilestone ==
    \/ LookupMilestone
    \/ PostMilestone
    \/ CloseMilestone

SpecMilestone == InitMilestone /\ [][NextMilestone]_vars

\* The state the project holds for the milestone of that id
StateOf(held, id) ==
    (CHOOSE m \in {held[i] : i \in 1 .. Len(held)} : m.id = id).state

\* C11: over the calls made on one project, a creation POST goes out only
\* when the project holds no milestone of that title at that moment, so the
\* project never holds two milestones of one title; and a close PUT goes out
\* exactly when must_close is set and the milestone is not closed already.
C11_Original ==
    [][fn = "create_milestone" =>
        /\ \A j \in Len(sent) + 1 .. Len(sent') :
             /\ sent'[j].kind = "milestone" =>
                    ~HasTitle(project_milestones, sent'[j].body.title)
             /\ sent'[j].kind = "milestone_close" =>
                    /\ args.meta.must_close
                    /\ StateOf(project_milestones, sent'[j].body.id) # "closed"
        /\ (pc = "milestone_close" /\ args.meta.must_close
              /\ StateOf(project_milestones, cm_milestone.v.id) # "closed") =>
                 Len(sent') = Len(sent) + 1
        /\ \A i, j \in 1 .. Len(project_milestones') :
             project_milestones'[i].title = project_milestones'[j].title => i = j
      ]_vars

-----------------------------------------------------------------------------
(* GitlabClient.get, one page request per step *)

MAX_PER_PAGE == 100

MaxItems == 210

MaxPages == 5

users_url == <<"https://gitlab/api/v4", "/users">>

\* The server-side collections: n distinct items, in the server's order
Collections == { [i \in 1 .. n |-> i] : n \in 0 .. MaxItems }

Min(a, b) == IF a <= b THEN a ELSE b

\* GitLab's answer to a page request: the slice of the collection that page
\* covers, the empty list beyond its end
PageOf(items, p, per_page) ==
    SubSeq(items, (p - 1) * per_page + 1, Min(p * per_page, Len(items)))

\* Lines 20-22: a GET with the page and per_page parameters
PageRequest(p, ok) ==
    Request("page", "GET", users_url, << >>, << >>, ok)
        @@ [params |-> [page |-> p, per_page |-> MAX_PER_PAGE]]

\* Line 25: the condition of the while loop
MorePages(got) == Len(got) > 0 /\ Len(got) % MAX_PER_PAGE = 0

\* Lines 20-24: the request of page 1; its failure leaves the call
GetFirstPage ==
    /\ fn = "get"
    /\ pc = "call"
    /\ page' = 1
    /\ \E ok \in BOOLEAN :
         /\ sent' = Append(sent, PageRequest(page', ok))
         /\ IF ok
            THEN /\ result' = Bound(PageOf(collection, page', MAX_PER_PAGE))
                 /\ pc' = "loop"
                 /\ UNCHANGED ret
            ELSE /\ Raise("HTTPError")
                 /\ UNCHANGED result
    /\ UNCHANGED <<user_dict, fn, args, log, ci_data, ci_l, ci_files, ci_issue,
                   ci_issue_url, ci_issue_notes_url, ci_idx, collection,
                   project_milestones, cache_milestones, cm_milestone, ncalls>>

\* Lines 25-27: one turn of the loop, the request of the next page
GetNextPage ==
    /\ fn = "get"
    /\ pc = "loop"
    /\ MorePages(result.v)
    /\ page < MaxPages
    /\ page' = page + 1
    /\ \E ok \in BOOLEAN :
         /\ sent' = Append(sent, PageRequest(page', ok))
         /\ IF ok
            THEN /\ result' = Bound(result.v
                                \o PageOf(collection, page', MAX_PER_PAGE))
                 /\ UNCHANGED <<pc, ret>>
            ELSE /\ Raise("HTTPError")
                 /\ UNCHANGED result
    /\ UNCHANGED <<user_dict, fn, args, log, ci_data, ci_l, ci_files, ci_issue,
                   ci_issue_url, ci_issue_notes_url, ci_idx, collection,
                   project_milestones, cache_milestones, cm_milestone, ncalls>>

\* Lines 25 and 28: the loop is left and the result returned
GetReturn ==
    /\ fn = "get"
    /\ pc = "loop"
    /\ ~MorePages(result.v)
    /\ ret' = Returned(result.v)
    /\ pc' = "done"
    /\ UNCHANGED <<user_dict, fn, args, log, locals, client>>

InitGet ==
    /\ user_dict = NoUserDict
    /\ fn = "get"
    /\ args = [url |-> users_url]
    /\ pc = "call"
    /\ ret = Pending
    /\ log = << >>
    /\ NoLocals
    /\ NoMilestones
    /\ collection \in Collections
    /\ result = Unbound
    /\ page = 0

NextGet ==
    \/ GetFirstPage
    \/ GetNextPage
    \/ GetReturn

SpecGet == InitGet /\ [][NextGet]_vars

\* The first page of a collection that is not full
FirstPageNotFull(items) == Len(items) \div MAX_PER_PAGE + 1

\* C12: whatever the size of the collection, the pages are requested in the
\* order 1, 2, 3, ..., none is requested after the first page that is not
\* full, at which point the call returns, and what it returns is the
\* collection, each item once and in page order.
C12_Original ==
    fn = "get" =>
        /\ \A j \in 1 .. Len(sent) : sent[j].params.page = j
        /\ page <= FirstPageNotFull(collection)
        /\ (pc = "loop" /\ page = FirstPageNotFull(collection)) =>
               ~MorePages(result.v)
        /\ (pc = "done" /\ ret.status = "returned") => ret.value = collection

-----------------------------------------------------------------------------
(* GitlabProject.uploads_to_string, as the first part of create_issue *)

\* The request at place j is a retry: the upload POST before it failed
IsRetry(j) ==
    /\ j >= 3
    /\ sent[j].kind = "upload"
    /\ sent[j - 2].kind = "upload"
    /\ ~sent[j - 2].ok

\* C13: there is one entry per descriptor, in input order; every upload POST
\* follows the successful fetch of its own descriptor and carries what that
\* fetch read, so a descriptor whose fetch failed is not uploaded and no POST
\* carries the content of an earlier descriptor; a failed POST is retried at
\* most once, with an ASCII-only file name.
C13_Original ==
    fn = "create_issue" =>
        /\ Len(ci_l) <= Len(args.meta.uploads)
        /\ pc \notin {"upload_fetch", "upload_post", "upload_retry", "done"} =>
               Len(ci_l) = Len(args.meta.uploads)
        /\ \A i \in 1 .. Len(ci_l) :
               LET d == Tok(args.meta.uploads[i].description)
               IN  SubSeq(ci_l[i], Len(ci_l[i]) - Len(d) + 1, Len(ci_l[i])) = d
        /\ \A j \in 1 .. Len(sent) :
               sent[j].kind = "upload" =>
                   /\ j > 1
                   /\ sent[j - 1].kind = "fetch"
                   /\ sent[j - 1].ok
                   /\ sent[j].body[2] = <<"content of">> \o sent[j - 1].url
                   /\ IsRetry(j) =>
                          /\ \A c \in 1 .. Len(sent[j].body[1]) :
                                 sent[j].body[1][c] \notin NonAscii
                          /\ ~sent[j].ok => j = Len(sent)

====
